---- MODULE Spec2Model ----
(***************************************************************************)
(* A model of the Sedusa story engine: the session-control surface of      *)
(* app.py (start / pause / resume / stop / status under runner_lock), the  *)
(* StoryRunner control loop of haptics/runner.py, and the de-duplicating   *)
(* HandyClient of device/handy.py.                                         *)
(*                                                                         *)
(* Time is wall-clock time in milliseconds.  It passes only while every    *)
(* control loop is inside a time.sleep() (or has exited) and no caller is  *)
(* between two statements; it then jumps to the next pending timer.  The   *)
(* program's own delays (the 60 ms tick, the 1 s join timeout, the 4-6 s   *)
(* Gaze hold, the 10 s Release hold) keep their values.  The lengths that  *)
(* come from data (the compiled duration of a playlist, the session        *)
(* length) are inputs drawn from small sets.                               *)
(***************************************************************************)
EXTENDS Integers, Sequences, FiniteSets, TLC

\* ---------------------------------------------------------------- bounds
MaxRunners == 2        \* sessions started in one behaviour
MaxCallers == 2        \* concurrent request threads of the front-end
MaxOps == 4            \* requests of a single-session behaviour (Spec)
SwapOps == 2           \* requests of a session-swap behaviour (SpecSwap)
ConcOps == 3           \* requests of a concurrent behaviour (SpecConc)
ClockOps == 3          \* requests of the polling client
MaxPlayTicks == 2      \* longest compiled playlist, in ticks
ShortSessionMs == 150  \* a session whose deadline arrives during playback
StartClockMs == 100000 \* time.time() when the first request arrives

\* ------------------------------------------------------ program constants
TICK_MS == 60              \* StoryRunner.TICK_S = 0.06
JOIN_TIMEOUT_MS == 1000    \* runner.join(timeout=1.0)
GAZE_HOLD_MIN_MS == 4000   \* rng.uniform(4.0, 6.0)
GAZE_HOLD_MAX_MS == 6000
RELEASE_HOLD_MS == 10000   \* time.sleep(10)
LONG_SESSION_MS == 600000  \* length_min = 10 minutes

Runners == 1..MaxRunners
Callers == 1..MaxCallers
NoRunner == 0
NoCaller == 0
NoneV == -1                \* Python's None for the device's remembered values

Max(a, b) == IF a >= b THEN a ELSE b
SetMin(S) == CHOOSE x \in S : \A y \in S : x <= y

\* The act timeline of a session shorter than 30 minutes (run(), the else
\* branch): the labels in order.  The Release phase follows the loop.
ActNames == <<"The Trap", "The Revelation", "The Test", "The Gaze">>

\* Compiled durations a playlist (or a fixed pattern) can have.
PlayDurations == {k * TICK_MS : k \in 1..MaxPlayTicks}
GazeHolds == {GAZE_HOLD_MIN_MS, GAZE_HOLD_MAX_MS}
SessionLengths == {ShortSessionMs, LONG_SESSION_MS}

\* A transport request either succeeds or raises HandyAPIError (mode 'handy').
PutFails == {FALSE, TRUE}
Windows == {1}
PosSpeeds == {1, 2}

VARIABLES
  now,            \* time.time(), ms
  runner,         \* app.runner: a runner id or NoRunner
  nrun,           \* runners constructed so far
  budget,         \* requests the behaviour may still make
  lock,           \* holder of app.runner_lock, or NoCaller
  stop_event,     \* [Runners -> BOOLEAN]  StoryRunner._stop_event
  pause_ev,       \* [Runners -> BOOLEAN]  StoryRunner._pause
  started_at,     \* [Runners -> Int]
  ends_at,        \* [Runners -> Int]
  last_line,      \* [Runners -> STRING]
  narr_t,         \* [Runners -> Int]      last_narrative_line_time
  act,            \* [Runners -> STRING]
  tpc,            \* [Runners -> STRING]   position of the run() thread
  tl,             \* [Runners -> record]   locals of the run() thread
  device,         \* [Runners -> [win, hz]]  HandyClient._slide_window/_speed_hz
  cpc,            \* [Callers -> STRING]   position of a request thread
  cl,             \* [Callers -> record]   locals of a request thread
  issued,         \* the last actuator call a control loop made, and when
  stop_at,        \* [Runners -> Int]      when _stop_event was first set
  stop_returned,  \* [Runners -> BOOLEAN]  a stop() call has returned
  pause_held,     \* [Runners -> BOOLEAN]  pause() returned, resume() not yet called
  \* playlist construction (run(), lines 97-178), one copy per run compared
  motifs,         \* the pattern universe: MotifLibrary.motifs_by_name, in order
  runs,           \* the runs of the session that are compared
  rng,            \* [run -> generator state]  rng = random.Random(self.seed)
  last_pattern_info,   \* [run -> record]
  prev_pattern_info,   \* [run -> record]  last_pattern_info before the last pick
  picks,          \* [run -> Seq(name)]  the pattern selections so far
  playlist_duration_s, \* [run -> ms]
  drawn,          \* [run -> set]  the generators the run has drawn from
  \* a call of one of the program's pure functions, observed on its own
  fn_args,        \* the function called and its arguments
  fn_ret          \* what it returned

playlistVars == <<motifs, runs, rng, last_pattern_info, prev_pattern_info,
                  picks, playlist_duration_s, drawn>>

sessionVars == <<now, runner, nrun, budget, lock, stop_event, pause_ev, started_at,
          ends_at, last_line, narr_t, act, tpc, tl, device, cpc, cl, issued,
          stop_at, stop_returned, pause_held>>

callVars == <<fn_args, fn_ret>>

vars == <<sessionVars, playlistVars, callVars>>

appVars == <<runner, nrun, budget, lock, cpc, cl>>
flagVars == <<stop_event, pause_ev, stop_at, stop_returned, pause_held>>
clockVars == <<started_at, ends_at>>
threadVars == <<tpc, tl>>
statusVars == <<last_line, narr_t, act>>

\* ------------------------------------------------------------ HandyClient
NewDevice == [win |-> NoneV, hz |-> NoneV]

\* HandyClient.set_slide_window: remember the window, then send it unless it
\* equals the remembered one.  The result says whether a request was sent
\* and whether the call raised.
SetSlideWindow(d, w, fail) ==
  IF w = d.win
    THEN [dev |-> d, sent |-> FALSE, raised |-> FALSE]
    ELSE [dev |-> [d EXCEPT !.win = w], sent |-> TRUE, raised |-> fail]

\* HandyClient.set_speed_hz: remember the speed; send it only when a window
\* has been set.
SetSpeedHz(d, hz, fail) ==
  IF hz = d.hz
    THEN [dev |-> d, sent |-> FALSE, raised |-> FALSE]
    ELSE IF d.win = NoneV
      THEN [dev |-> [d EXCEPT !.hz = hz], sent |-> FALSE, raised |-> FALSE]
      ELSE [dev |-> [d EXCEPT !.hz = hz], sent |-> TRUE, raised |-> fail]

\* ------------------------------------------------------------ StoryRunner
Sleeping == {"pe_sleep", "gaze_hold", "rel_hold"}
\* run() has ended: it returned at line 180 ("done"), ran to the end of the
\* close sequence ("finished"), or an exception left it ("dead").
Exited == {"done", "finished", "dead"}

\* threading.Thread.is_alive()
IsAlive(r) == r \in 1..nrun /\ tpc[r] \notin Exited

\* a stop condition that looks at the flag only, never at the deadline
StopFlagOnly(r) == stop_event[r]

\* StoryRunner._should_stop
ShouldStop(r) == stop_event[r] \/ now >= ends_at[r]

\* StoryRunner.state_snapshot: the lifecycle word
Lifecycle(r) ==
  IF pause_ev[r] THEN "paused"
  ELSE IF ~stop_event[r] THEN "running" ELSE "stopped"

\* StoryRunner.state_snapshot: t_remaining_ms
Remaining(r) == Max(0, ends_at[r] - now)

NoSnap == [r |-> NoRunner]
Snapshot(r) ==
  [r |-> r, state |-> Lifecycle(r), started_at |-> started_at[r],
   ends_at |-> ends_at[r], t_remaining_ms |-> Remaining(r),
   last_line |-> last_line[r], act |-> act[r],
   at |-> now, after_stop |-> stop_returned[r], stop_called |-> stop_event[r],
   thread |-> tpc[r]]

\* ------------------------------------------------------ narrative content
\* The announcement keys that have a pool of lines (narrative_templates).
NarrativeKeys ==
  {"INVITE", "STORY_TRAP", "STORY_REVELATION", "STORY_TEST", "STORY_GAZE",
   "STORY_RELEASE", "OUTRO"}
HasPool(key) == key \in NarrativeKeys

\* f"STORY_{key_name}" for an act label with "The " removed and upper-cased
StoryKey(a) ==
  CASE a = "The Trap" -> "STORY_TRAP"
    [] a = "The Revelation" -> "STORY_REVELATION"
    [] a = "The Test" -> "STORY_TEST"
    [] a = "The Gaze" -> "STORY_GAZE"
    [] OTHER -> "STORY_RELEASE"

\* run(): the key announced when an act starts
ActStartKey(a) == IF a = "The Trap" THEN "INVITE" ELSE StoryKey(a)

FORCED_NARRATIVE_INTERVAL_MS == 18000

\* StoryRunner._announce: the new last_line and last_narrative_line_time
AnnouncedLine(key) == IF HasPool(key) THEN key ELSE "Narrative key not found"
AnnouncedTime(r, key) == IF HasPool(key) THEN now ELSE narr_t[r]

Announce(r, key) ==
  /\ last_line' = [last_line EXCEPT ![r] = AnnouncedLine(key)]
  /\ narr_t' = [narr_t EXCEPT ![r] = AnnouncedTime(r, key)]

\* ------------------------------------------------------------ run() thread
NoLocals == [idx |-> 0, ret |-> "none", dur |-> 0, end_t |-> 0, wake |-> 0]

Issue(r, cmd) ==
  [cmd |-> cmd, paused |-> pause_held[r], stopped |-> stop_returned[r]]

\* Call _play_events(events) and go on at `ret` when it returns.  The
\* compiled duration of the events is tl[r].dur, fixed by the session's
\* pattern universe.
CallPlay(r, ret, idx) ==
  tl' = [tl EXCEPT ![r] = [@ EXCEPT !.idx = idx, !.ret = ret,
                                    !.end_t = 0, !.wake = 0]]

\* Return from _play_events to the caller's continuation.  The Release hold
\* (time.sleep(10)) starts right after the release pattern has played.
ReturnFromPlay(r) ==
  /\ tpc' = [tpc EXCEPT ![r] = tl[r].ret]
  /\ tl' = [tl EXCEPT ![r] =
              [@ EXCEPT !.ret = "none", !.end_t = 0,
                        !.wake = IF tl[r].ret = "rel_hold"
                                   THEN now + RELEASE_HOLD_MS ELSE 0]]

\* run(), lines 99-178: the head of one iteration of the act loop.  A
\* stopped or expired session leaves the loop; otherwise the act is
\* announced and either the Gaze sequence starts with the freeze pattern or
\* a playlist is built and handed to the tick loop.
ActBegin(r) ==
  /\ tpc[r] = "act"
  /\ IF tl[r].idx > Len(ActNames) \/ ShouldStop(r)
       THEN /\ tpc' = [tpc EXCEPT ![r] = "final"]
            /\ UNCHANGED <<tl, act, last_line, narr_t>>
       ELSE LET a == ActNames[tl[r].idx] IN
            /\ act' = [act EXCEPT ![r] = a]
            /\ Announce(r, ActStartKey(a))
            /\ tpc' = [tpc EXCEPT ![r] = "pe_entry"]
            /\ IF a = "The Gaze"
                 THEN CallPlay(r, "gaze_check", tl[r].idx + 1)
                 ELSE CallPlay(r, "act", tl[r].idx + 1)
  /\ UNCHANGED <<callVars, playlistVars, now, appVars, flagVars, clockVars, device, issued>>

\* _play_events, line 246
PlayEntry(r) ==
  /\ tpc[r] = "pe_entry"
  /\ IF ShouldStop(r)
       THEN ReturnFromPlay(r)
       ELSE tpc' = [tpc EXCEPT ![r] = "pe_start"] /\ UNCHANGED tl
  /\ UNCHANGED <<callVars, playlistVars, now, appVars, flagVars, clockVars, statusVars, device, issued>>

\* _play_events, lines 247-250: start_motion, then the end of the playlist.
\* A transport error is not caught anywhere in run(): it ends the thread.
PlayStart(r) ==
  /\ tpc[r] = "pe_start"
  /\ issued' = Issue(r, "start_motion")
  /\ \E fail \in PutFails :
       IF fail
         THEN tpc' = [tpc EXCEPT ![r] = "dead"] /\ tl' = [tl EXCEPT ![r] = NoLocals]
         ELSE /\ tpc' = [tpc EXCEPT ![r] = "pe_loop"]
              /\ tl' = [tl EXCEPT ![r].end_t = now + tl[r].dur]
  /\ UNCHANGED <<callVars, playlistVars, now, appVars, flagVars, clockVars, statusVars, device>>

\* _play_events, lines 252-255: the head of one tick
PlayLoop(r) ==
  /\ tpc[r] = "pe_loop"
  /\ IF now >= tl[r].end_t \/ ShouldStop(r)
       THEN ReturnFromPlay(r)
       ELSE IF pause_ev[r]
         THEN /\ tpc' = [tpc EXCEPT ![r] = "pe_sleep"]
              /\ tl' = [tl EXCEPT ![r].wake = now + TICK_MS]
         ELSE tpc' = [tpc EXCEPT ![r] = "pe_cmd"] /\ UNCHANGED tl
  /\ UNCHANGED <<callVars, playlistVars, now, appVars, flagVars, clockVars, statusVars, device, issued>>

\* The actuator calls of one tick (lines 263-288): with an active segment,
\* set_slide_window then set_speed_hz; with none, set_speed_hz(0).
TickCalls(d, active, w, hz, f1, f2) ==
  IF active
    THEN LET a == SetSlideWindow(d, w, f1) IN
         IF a.raised THEN [dev |-> a.dev, raised |-> TRUE, cmd |-> "set_slide_window"]
         ELSE LET b == SetSpeedHz(a.dev, hz, f2) IN
              [dev |-> b.dev, raised |-> b.raised, cmd |-> "set_speed_hz"]
    ELSE LET b == SetSpeedHz(d, 0, f2) IN
         [dev |-> b.dev, raised |-> b.raised, cmd |-> "set_speed_hz"]

\* _play_events, lines 257-290: the forced narrative line, the actuator
\* calls of the tick, then time.sleep(TICK_S).
PlayTick(r) ==
  /\ tpc[r] = "pe_cmd"
  /\ IF now - narr_t[r] > FORCED_NARRATIVE_INTERVAL_MS /\ HasPool(StoryKey(act[r]))
       THEN Announce(r, StoryKey(act[r]))
       ELSE UNCHANGED <<last_line, narr_t>>
  /\ \E active \in BOOLEAN, w \in Windows, hz \in PosSpeeds, f1, f2 \in PutFails :
       LET c == TickCalls(device[r], active, w, hz, f1, f2) IN
       /\ device' = [device EXCEPT ![r] = c.dev]
       /\ issued' = Issue(r, c.cmd)
       /\ IF c.raised
            THEN tpc' = [tpc EXCEPT ![r] = "dead"] /\ tl' = [tl EXCEPT ![r] = NoLocals]
            ELSE /\ tpc' = [tpc EXCEPT ![r] = "pe_sleep"]
                 /\ tl' = [tl EXCEPT ![r].wake = now + TICK_MS]
  /\ UNCHANGED <<callVars, playlistVars, now, appVars, flagVars, clockVars, act>>

\* the end of time.sleep(TICK_S)
PlayWake(r) ==
  /\ tpc[r] = "pe_sleep"
  /\ now >= tl[r].wake
  /\ tpc' = [tpc EXCEPT ![r] = "pe_loop"]
  /\ tl' = [tl EXCEPT ![r].wake = 0]
  /\ UNCHANGED <<callVars, playlistVars, now, appVars, flagVars, clockVars, statusVars, device, issued>>

\* run(), lines 112-113: after the freeze pattern, one check of the stop
\* condition, then a single time.sleep(rng.uniform(4.0, 6.0))
GazeCheck(r) ==
  /\ tpc[r] = "gaze_check"
  /\ IF ShouldStop(r)
       THEN tpc' = [tpc EXCEPT ![r] = "final"] /\ UNCHANGED tl
       ELSE /\ tpc' = [tpc EXCEPT ![r] = "gaze_hold"]
            /\ \E g \in GazeHolds : tl' = [tl EXCEPT ![r].wake = now + g]
  /\ UNCHANGED <<callVars, playlistVars, now, appVars, flagVars, clockVars, statusVars, device, issued>>

\* run(), lines 114-116: the hold is over; play the pass pattern, continue
GazeWake(r) ==
  /\ tpc[r] = "gaze_hold"
  /\ now >= tl[r].wake
  /\ tpc' = [tpc EXCEPT ![r] = "pe_entry"]
  /\ CallPlay(r, "act", tl[r].idx)
  /\ UNCHANGED <<callVars, playlistVars, now, appVars, flagVars, clockVars, statusVars, device, issued>>

\* run(), lines 180-183: after the act loop
Final(r) ==
  /\ tpc[r] = "final"
  /\ IF ShouldStop(r)
       THEN /\ tpc' = [tpc EXCEPT ![r] = "done"]
            /\ tl' = [tl EXCEPT ![r] = NoLocals]
            /\ UNCHANGED <<act, last_line, narr_t>>
       ELSE /\ act' = [act EXCEPT ![r] = "The Release"]
            /\ Announce(r, "STORY_RELEASE")
            /\ tpc' = [tpc EXCEPT ![r] = "pe_entry"]
            /\ CallPlay(r, "rel_hold", tl[r].idx)
  /\ UNCHANGED <<callVars, playlistVars, now, appVars, flagVars, clockVars, device, issued>>

\* run(), lines 184-186: the 10 s hold is over; stop_motion, then the Outro
ReleaseWake(r) ==
  /\ tpc[r] = "rel_hold"
  /\ now >= tl[r].wake
  /\ issued' = Issue(r, "stop_motion")
  /\ tl' = [tl EXCEPT ![r] = NoLocals]
  /\ \E fail \in PutFails :
       IF fail
         THEN tpc' = [tpc EXCEPT ![r] = "dead"] /\ UNCHANGED <<last_line, narr_t>>
         ELSE tpc' = [tpc EXCEPT ![r] = "finished"] /\ Announce(r, "OUTRO")
  /\ UNCHANGED <<callVars, playlistVars, now, appVars, flagVars, clockVars, act, device>>

Thread(r) ==
  \/ ActBegin(r) \/ PlayEntry(r) \/ PlayStart(r) \/ PlayLoop(r) \/ PlayTick(r)
  \/ PlayWake(r) \/ GazeCheck(r) \/ GazeWake(r) \/ Final(r) \/ ReleaseWake(r)

\* ------------------------------------------------- app.py request threads
Ops == {"start", "pause", "resume", "stop", "status"}
NoSeen == [r |-> NoRunner, at |-> 0, t_remaining_ms |-> 0]
NoCall == [op |-> "none", target |-> NoRunner, join_until |-> 0,
           snap |-> NoSnap, trace |-> <<>>, raised |-> FALSE, seen |-> NoSeen]

SetStop(r) ==
  /\ stop_event' = [stop_event EXCEPT ![r] = TRUE]
  /\ stop_at' = [stop_at EXCEPT ![r] = IF stop_event[r] THEN @ ELSE now]

\* A request arrives at the front-end (Flask runs each in its own thread).
Request(c) ==
  /\ cpc[c] = "idle"
  /\ c <= budget.callers
  /\ budget.ops > 0
  /\ \E op \in Ops :
       /\ op = "start" => budget.starts > 0
       /\ cl' = [cl EXCEPT ![c] = [NoCall EXCEPT !.op = op, !.seen = cl[c].seen]]
       /\ budget' = [budget EXCEPT !.ops = @ - 1,
                                   !.starts = IF op = "start" THEN @ - 1 ELSE @]
  /\ cpc' = [cpc EXCEPT ![c] = "wait"]
  /\ UNCHANGED <<callVars, playlistVars, now, runner, nrun, lock, flagVars, clockVars, statusVars,
                 threadVars, device, issued>>

\* status(): with runner_lock: the snapshot, or {"state": "idle"}
Status(c) ==
  /\ cpc[c] = "wait" /\ cl[c].op = "status"
  /\ lock = NoCaller
  /\ cl' = [cl EXCEPT ![c].snap =
              IF runner = NoRunner THEN [r |-> NoRunner, state |-> "idle"]
              ELSE Snapshot(runner)]
  /\ cpc' = [cpc EXCEPT ![c] = "reply"]
  /\ UNCHANGED <<callVars, playlistVars, now, runner, nrun, budget, lock, flagVars, clockVars, statusVars,
                 threadVars, device, issued>>

\* a faulty resume() that pushes the deadline back by the time spent paused
ResumeExtendingDeadline(c) ==
  /\ cpc[c] = "wait" /\ cl[c].op = "resume"
  /\ lock = NoCaller
  /\ runner # NoRunner
  /\ pause_ev' = [pause_ev EXCEPT ![runner] = FALSE]
  /\ pause_held' = [pause_held EXCEPT ![runner] = FALSE]
  /\ ends_at' = [ends_at EXCEPT ![runner] = @ + TICK_MS]
  /\ cpc' = [cpc EXCEPT ![c] = "reply"]
  /\ UNCHANGED <<callVars, playlistVars, now, runner, nrun, budget, lock, cl, stop_event, stop_at,
                 stop_returned, started_at, statusVars, threadVars, device, issued>>

\* resume_story(): with runner_lock: runner.resume()
Resume(c) ==
  /\ cpc[c] = "wait" /\ cl[c].op = "resume"
  /\ lock = NoCaller
  /\ IF runner = NoRunner
       THEN UNCHANGED <<pause_ev, pause_held>>
       ELSE /\ pause_ev' = [pause_ev EXCEPT ![runner] = FALSE]
            /\ pause_held' = [pause_held EXCEPT ![runner] = FALSE]
  /\ cpc' = [cpc EXCEPT ![c] = "reply"]
  /\ UNCHANGED <<callVars, playlistVars, now, runner, nrun, budget, lock, cl, stop_event, stop_at,
                 stop_returned, clockVars, statusVars, threadVars, device, issued>>

\* pause_story(): take runner_lock; runner.pause() sets the flag and then
\* calls device.stop_motion(), a transport request made under the lock.
PauseBegin(c) ==
  /\ cpc[c] = "wait" /\ cl[c].op = "pause"
  /\ lock = NoCaller
  /\ IF runner = NoRunner
       THEN /\ cpc' = [cpc EXCEPT ![c] = "reply"]
            /\ UNCHANGED <<lock, cl, pause_ev>>
       ELSE /\ lock' = c
            /\ pause_ev' = [pause_ev EXCEPT ![runner] = TRUE]
            /\ cl' = [cl EXCEPT ![c].target = runner]
            /\ cpc' = [cpc EXCEPT ![c] = "pause_io"]
  /\ UNCHANGED <<callVars, playlistVars, now, runner, nrun, budget, stop_event, stop_at, stop_returned,
                 pause_held, clockVars, statusVars, threadVars, device, issued>>

\* device.stop_motion() of pause() completes or raises; pause() has no
\* handler, so the error leaves pause_story (the with-block frees the lock).
PauseEnd(c) ==
  /\ cpc[c] = "pause_io"
  /\ \E fail \in PutFails : cl' = [cl EXCEPT ![c].raised = fail]
  /\ pause_held' = [pause_held EXCEPT ![cl[c].target] = TRUE]
  /\ lock' = NoCaller
  /\ cpc' = [cpc EXCEPT ![c] = "reply"]
  /\ UNCHANGED <<callVars, playlistVars, now, runner, nrun, budget, stop_event, stop_at, stop_returned,
                 pause_ev, clockVars, statusVars, threadVars, device, issued>>

\* stop_story(): take runner_lock; runner.stop() begins by setting the flag
StopBegin(c) ==
  /\ cpc[c] = "wait" /\ cl[c].op = "stop"
  /\ lock = NoCaller
  /\ IF runner = NoRunner
       THEN /\ cpc' = [cpc EXCEPT ![c] = "reply"]
            /\ UNCHANGED <<lock, cl, stop_event, stop_at>>
       ELSE /\ lock' = c
            /\ SetStop(runner)
            /\ cl' = [cl EXCEPT ![c].target = runner, ![c].trace = <<"flag">>]
            /\ cpc' = [cpc EXCEPT ![c] = "speed"]
  /\ UNCHANGED <<callVars, playlistVars, now, runner, nrun, budget, stop_returned, pause_ev, pause_held,
                 clockVars, statusVars, threadVars, device, issued>>

\* build_runner(): take runner_lock; clear the old runner's last_line and,
\* if its thread is alive, stop() it (then join, then construct).
StartBegin(c) ==
  /\ cpc[c] = "wait" /\ cl[c].op = "start"
  /\ lock = NoCaller
  /\ lock' = c
  /\ IF runner = NoRunner
       THEN /\ cpc' = [cpc EXCEPT ![c] = "build"]
            /\ UNCHANGED <<cl, last_line, stop_event, stop_at>>
       ELSE /\ last_line' = [last_line EXCEPT ![runner] = ""]
            /\ IF IsAlive(runner)
                 THEN /\ SetStop(runner)
                      /\ cl' = [cl EXCEPT ![c].target = runner, ![c].trace = <<"flag">>]
                      /\ cpc' = [cpc EXCEPT ![c] = "speed"]
                 ELSE /\ cpc' = [cpc EXCEPT ![c] = "build"]
                      /\ UNCHANGED <<cl, stop_event, stop_at>>
  /\ UNCHANGED <<callVars, playlistVars, now, runner, nrun, budget, stop_returned, pause_ev, pause_held,
                 clockVars, narr_t, act, threadVars, device, issued>>

\* The end of stop(): it returns to its caller, which joins the thread for
\* at most one second.
StopReturns(c, trace) ==
  /\ stop_returned' = [stop_returned EXCEPT ![cl[c].target] = TRUE]
  /\ cl' = [cl EXCEPT ![c].trace = trace, ![c].join_until = now + JOIN_TIMEOUT_MS]
  /\ cpc' = [cpc EXCEPT ![c] = "join"]

\* stop(), line 52, inside the try: device.set_speed_hz(0).  If it raises,
\* the handler prints and stop() returns: line 53 is skipped.
StopSpeed(c) ==
  /\ cpc[c] = "speed"
  /\ \E fail \in PutFails :
       LET t == cl[c].target
           res == SetSpeedHz(device[t], 0, fail)
           trace == Append(cl[c].trace, "speed") IN
       /\ device' = [device EXCEPT ![t] = res.dev]
       /\ IF res.raised
            THEN StopReturns(c, trace)
            ELSE /\ cl' = [cl EXCEPT ![c].trace = trace]
                 /\ cpc' = [cpc EXCEPT ![c] = "motion"]
                 /\ UNCHANGED stop_returned
  /\ UNCHANGED <<callVars, playlistVars, now, runner, nrun, budget, lock, stop_event, stop_at, pause_ev,
                 pause_held, clockVars, statusVars, threadVars, issued>>

\* stop(), line 53: device.stop_motion(); an error is caught and printed
StopMotion(c) ==
  /\ cpc[c] = "motion"
  /\ StopReturns(c, Append(cl[c].trace, "motion"))
  /\ UNCHANGED <<callVars, playlistVars, now, runner, nrun, budget, lock, stop_event, stop_at, pause_ev,
                 pause_held, clockVars, statusVars, threadVars, device, issued>>

\* runner.join(timeout=1.0) returns: the thread has ended or the second is up
JoinReturns(c) ==
  /\ cpc[c] = "join"
  /\ ~IsAlive(cl[c].target) \/ now >= cl[c].join_until
  /\ IF cl[c].op = "stop"
       THEN lock' = NoCaller /\ cpc' = [cpc EXCEPT ![c] = "reply"]
       ELSE UNCHANGED lock /\ cpc' = [cpc EXCEPT ![c] = "build"]
  /\ cl' = [cl EXCEPT ![c].join_until = 0]
  /\ UNCHANGED <<callVars, playlistVars, now, runner, nrun, budget, flagVars, clockVars, statusVars,
                 threadVars, device, issued>>

\* StoryRunner.__init__ and Thread.start(), from build_runner lines 74-94
Build(c) ==
  /\ cpc[c] = "build"
  /\ nrun < MaxRunners
  /\ LET r == nrun + 1 IN
     /\ nrun' = r
     /\ runner' = r
     /\ started_at' = [started_at EXCEPT ![r] = now]
     /\ \E len \in SessionLengths : ends_at' = [ends_at EXCEPT ![r] = now + len]
     /\ tpc' = [tpc EXCEPT ![r] = "act"]
     /\ \E d \in PlayDurations :
          tl' = [tl EXCEPT ![r] = [NoLocals EXCEPT !.idx = 1, !.dur = d]]
     /\ cl' = [cl EXCEPT ![c].target = r]
  /\ lock' = NoCaller
  /\ cpc' = [cpc EXCEPT ![c] = "snap"]
  /\ UNCHANGED <<callVars, playlistVars, now, budget, flagVars, statusVars, device, issued>>

\* start_story(), line 156: r.state_snapshot(), outside the lock
StartSnapshot(c) ==
  /\ cpc[c] = "snap"
  /\ cl' = [cl EXCEPT ![c].snap = Snapshot(cl[c].target)]
  /\ cpc' = [cpc EXCEPT ![c] = "reply"]
  /\ UNCHANGED <<callVars, playlistVars, now, runner, nrun, budget, lock, flagVars, clockVars, statusVars,
                 threadVars, device, issued>>

\* What a client remembers of the snapshot it was given: the runner, the
\* time and the remaining time.
Seen(sn) ==
  IF sn.r = NoRunner THEN NoSeen
  ELSE [r |-> sn.r, at |-> sn.at, t_remaining_ms |-> sn.t_remaining_ms]

\* The response is sent; the request thread is free again.
Reply(c) ==
  /\ cpc[c] = "reply"
  /\ cpc' = [cpc EXCEPT ![c] = "idle"]
  /\ cl' = [cl EXCEPT ![c] =
              [NoCall EXCEPT !.seen = IF budget.remember /\ cl[c].op \in {"status", "start"}
                                        THEN Seen(cl[c].snap) ELSE cl[c].seen]]
  /\ UNCHANGED <<callVars, playlistVars, now, runner, nrun, budget, lock, flagVars, clockVars, statusVars,
                 threadVars, device, issued>>

Caller(c) ==
  \/ Request(c) \/ Status(c) \/ Resume(c) \/ PauseBegin(c) \/ PauseEnd(c)
  \/ StopBegin(c) \/ StartBegin(c) \/ StopSpeed(c) \/ StopMotion(c)
  \/ JoinReturns(c) \/ Build(c) \/ StartSnapshot(c) \/ Reply(c)

\* ------------------------------------------------------------------- time
\* Nothing can run: every control loop sleeps or has ended, every request
\* thread is idle, waits for the lock, waits for the transport or joins.
Quiet ==
  /\ \A r \in 1..nrun :
       tpc[r] \in Exited \/ (tpc[r] \in Sleeping /\ tl[r].wake > now)
  /\ \A c \in Callers :
       \/ cpc[c] \in {"idle", "pause_io", "speed", "motion"}
       \/ cpc[c] = "wait" /\ lock # NoCaller
       \/ cpc[c] = "join" /\ IsAlive(cl[c].target) /\ cl[c].join_until > now

Timers ==
  {tl[r].wake : r \in {x \in 1..nrun : tpc[x] \in Sleeping}}
    \cup {cl[c].join_until : c \in {x \in Callers : cpc[x] = "join"}}
    \cup {ends_at[r] : r \in 1..nrun}

Advance ==
  /\ Quiet
  /\ \E t \in Timers : t > now
  /\ now' = SetMin({t \in Timers : t > now})
  /\ UNCHANGED <<callVars, playlistVars, appVars, flagVars, clockVars, statusVars,
                 threadVars, device, issued>>

\* --------------------------------------------------- playlist construction
MaxPatterns == 3       \* patterns in the universe
MaxPicks == 3          \* selections followed in one phase
MaxSeed == 2           \* session seeds 0..MaxSeed
PlaylistTargetMs == 6000   \* the phase's allocated duration
RngModulus == 16       \* the seeded generator: x -> (5x + 3) mod 16
RngMul == 5
RngInc == 3
DEFAULT_DP == 50           \* p.get('dp', 50)
DEFAULT_DURATION_MS == 5000    \* p.get('duration_ms', 5000)
FALLBACK_DURATION_MS == 1000   \* the fallback segment's duration_s = 1
MIN_USABLE_MS == 100       \* pattern_duration <= 0.1 is discarded
CONTRAST_DP == 30          \* abs(current_dp - last dp) > 30

\* The motif definitions a universe is drawn from.  `body` says whether the
\* entry has a 'pattern'; dp is the pattern's 'dp' (NoneV: no such key);
\* combo is the 'dp' keys of the combo's sub-segments (<<>>: not a combo).
Motif(body, dp, combo, ms) ==
  [body |-> body, dp |-> dp, combo |-> combo, duration_ms |-> ms]
MotifKinds ==
  { Motif(TRUE, 10, <<>>, 2000),          \* shallow
    Motif(TRUE, 20, <<>>, NoneV),         \* shallow, default duration
    Motif(TRUE, 70, <<>>, 2000),          \* deep
    Motif(TRUE, NoneV, <<>>, 50),         \* no 'dp' key; too short to use
    Motif(TRUE, 70, <<10, NoneV>>, 4000), \* combo, first sub-segment overrides dp
    Motif(FALSE, NoneV, <<>>, NoneV) }    \* an entry with no 'pattern'
Universes == UNION {[1..n -> MotifKinds] : n \in 1..MaxPatterns}
Seeds == 0..MaxSeed
Abs(x) == IF x < 0 THEN -x ELSE x

\* TokenCompiler._dp_to_band
DpToBand(dp) == IF dp < 33 THEN "A" ELSE IF dp < 66 THEN "B" ELSE "C"

\* p_data_candidate.get('dp', 50)
MotifDp(m) == IF m.dp = NoneV THEN DEFAULT_DP ELSE m.dp

\* compile_by_name(name)[0].get('dp', motif['pattern'].get('dp', 50)): the
\* first compiled event carries the keys of the pattern (simple) or of the
\* first sub-segment (combo).
FirstEventDp(m) ==
  IF m.combo = <<>> THEN MotifDp(m)
  ELSE IF m.combo[1] = NoneV THEN MotifDp(m) ELSE m.combo[1]

\* max(offset_s + duration_s) over compile_by_name(name): duration_ms of a
\* simple pattern, the total duration of a combo without sub-segment
\* durations, one second for the fallback segment.
PatternDurationMs(m) ==
  IF ~m.body THEN FALLBACK_DURATION_MS
  ELSE IF m.duration_ms = NoneV THEN DEFAULT_DURATION_MS ELSE m.duration_ms

\* random.Random: the next state of the generator, and rng.choice(seq)
RngNext(x) == (x * RngMul + RngInc) % RngModulus
RngChoice(seq, x) == seq[(RngNext(x) % Len(seq)) + 1]

NoInfo == [name |-> NoneV, dp |-> NoneV, band |-> "none"]
Names == 1..Len(motifs)     \* all_pattern_names, in dictionary order
NameSeq == [i \in 1..Len(motifs) |-> i]

\* run(), lines 128-141: does the candidate loop keep pattern p?
IsCandidate(p, last) ==
  /\ motifs[p].body
  /\ \/ last.band # "none" /\ DpToBand(MotifDp(motifs[p])) # last.band
     \/ last.dp # NoneV /\ Abs(MotifDp(motifs[p]) - last.dp) > CONTRAST_DP
     \/ p # last.name

\* run(), lines 123-148: the list rng.choice draws from (a list of one
\* name when eligible_patterns[0] is taken without a draw)
ChoiceList(last) ==
  IF last.name = NoneV THEN NameSeq
  ELSE LET cand == SelectSeq(NameSeq, LAMBDA p : IsCandidate(p, last)) IN
       IF cand # <<>> THEN cand
       ELSE IF Len(NameSeq) > 1
         THEN SelectSeq(NameSeq, LAMBDA p : p # last.name)
         ELSE NameSeq

DrawsChoice(last) ==
  ~(last.name # NoneV
    /\ SelectSeq(NameSeq, LAMBDA p : IsCandidate(p, last)) = <<>>
    /\ Len(NameSeq) <= 1)

\* run(), lines 157-166: last_pattern_info after pattern p was compiled
InfoAfter(p) ==
  IF ~motifs[p].body THEN [name |-> p, dp |-> DEFAULT_DP, band |-> "B"]
  ELSE [name |-> p, dp |-> FirstEventDp(motifs[p]),
        band |-> DpToBand(FirstEventDp(motifs[p]))]

\* run(), lines 122-175: one iteration of the playlist loop of a phase.
PickPattern(k) ==
  /\ k \in runs
  /\ Len(picks[k]) < MaxPicks
  /\ playlist_duration_s[k] < PlaylistTargetMs
  /\ LET last == last_pattern_info[k]
         list == ChoiceList(last)
         p == IF DrawsChoice(last) THEN RngChoice(list, rng[k]) ELSE list[1]
         d == PatternDurationMs(motifs[p]) IN
     /\ rng' = [rng EXCEPT ![k] = IF DrawsChoice(last) THEN RngNext(@) ELSE @]
     /\ drawn' = [drawn EXCEPT ![k] = IF DrawsChoice(last) THEN @ \cup {"seeded"} ELSE @]
     /\ picks' = [picks EXCEPT ![k] = Append(@, p)]
     /\ prev_pattern_info' = [prev_pattern_info EXCEPT ![k] = last]
     /\ last_pattern_info' = [last_pattern_info EXCEPT ![k] = InfoAfter(p)]
     /\ playlist_duration_s' =
          [playlist_duration_s EXCEPT ![k] =
             IF d <= MIN_USABLE_MS THEN @ ELSE @ + (d * 6) \div 10]
  /\ UNCHANGED <<callVars, sessionVars, motifs, runs>>

\* _announce, _play_default, _play_burst, _play_pulse, _play_events: a line,
\* a jitter factor or an active segment is drawn with the module-level
\* functions random.choice / random.uniform / random.random.
GlobalDraw(k) ==
  /\ k \in runs
  /\ "global" \notin drawn[k]
  /\ drawn' = [drawn EXCEPT ![k] = @ \cup {"global"}]
  /\ UNCHANGED <<callVars, sessionVars, motifs, runs, rng, last_pattern_info,
                 prev_pattern_info, picks, playlist_duration_s>>

\* No pure function has been called.
NoArgs == [fn |-> "none"]
CallIdle == fn_args = NoArgs /\ fn_ret = NoArgs

\* ------------------------------------------ TokenCompiler.compile_by_name
MaxSegs == 3               \* sub-segments of a combo
DEFAULT_SP == 50           \* p.get('sp', 50)
DEFAULT_RNG == 20          \* p.get('rng', 20)
HZ_PER_100_SP == 3         \* sp / 100 * 3.0
DEFAULT_OVERLAP_TENTHS == 3    \* overlap: float = 0.3

\* Times are exact fractions <<numerator, denominator>> of milliseconds;
\* hz is in hundredths of a hertz, the overlap in tenths.
RatEq(a, b) == a[1] * b[2] = b[1] * a[2]
RatAdd(a, b) == <<a[1] * b[2] + b[1] * a[2], a[2] * b[2]>>
RatLe(a, b) == a[1] * b[2] <= b[1] * a[2]
OverlapTenths == {0, DEFAULT_OVERLAP_TENTHS, 5}

\* dict.get(key, default), None standing for a missing key
Get(v, default) == IF v = NoneV THEN default ELSE v

\* Keys of a pattern that have the name of a key of the compiled event.
NoExtra == [k \in {} |-> 0]
Extras ==
  { NoExtra, [k \in {"band"} |-> "C"], [k \in {"hz"} |-> 0],
    [k \in {"offset_s"} |-> <<500, 1>>], [k \in {"duration_s"} |-> <<1, 1>>] }

\* The sub-segments of a combo: each may override dp, sp, rng, duration_ms.
SubSegs == [dp : {NoneV, 10}, sp : {NoneV, 80}, rng : {NoneV}, duration_ms : {NoneV, 1000}]
Combos == UNION {[1..n -> SubSegs] : n \in 0..MaxSegs}
SimplePatterns ==
  [type : {"sine", "combo"}, dp : {NoneV, 0, 32, 33, 65, 66, 100}, sp : {NoneV, 100},
   rng : {NoneV, 30}, duration_ms : {NoneV, 3000}, combo : {<<>>}, extra : Extras]
ComboPatterns ==
  [type : {"combo"}, dp : {NoneV, 70}, sp : {NoneV}, rng : {NoneV},
   duration_ms : {NoneV, 6000, 7000}, combo : Combos \ {<<>>}, extra : {NoExtra}]

\* What MotifLibrary.get_pattern(name) finds: nothing ("unknown"), an entry
\* without a 'pattern' key ("nobody"), an entry whose 'pattern' is null
\* ("null"), or an entry with a pattern.
NoPattern ==
  [type |-> "sine", dp |-> NoneV, sp |-> NoneV, rng |-> NoneV,
   duration_ms |-> NoneV, combo |-> <<>>, extra |-> NoExtra]
Entry(kind, tag, pat) == [kind |-> kind, tag |-> tag, p |-> pat]
MissEntries == {Entry(k, t, NoPattern) : k \in {"unknown", "nobody", "null"}, t \in {"none", "A"}}
SimpleEntries == {Entry("pattern", t, q) : t \in {"none", "A"}, q \in SimplePatterns}
ComboEntries == {Entry("pattern", t, q) : t \in {"none"}, q \in ComboPatterns}

\* {**event, **p}: the keys of p replace the computed keys of the same name
Merge(ev, extra) == [k \in DOMAIN ev |-> IF k \in DOMAIN extra THEN extra[k] ELSE ev[k]]

\* compile_by_name, line 27
FallbackSegment ==
  [band |-> "B", hz |-> 0, range_mm |-> 0, offset_s |-> <<0, 1>>,
   duration_s |-> <<FALLBACK_DURATION_MS, 1>>, dominant_band |-> "none"]

\* compile_by_name, lines 40-49
CompileSimple(q, tag) ==
  <<[Merge([band |-> DpToBand(Get(q.dp, DEFAULT_DP)),
            hz |-> Get(q.sp, DEFAULT_SP) * HZ_PER_100_SP,
            range_mm |-> Get(q.rng, DEFAULT_RNG),
            offset_s |-> <<0, 1>>,
            duration_s |-> <<Get(q.duration_ms, DEFAULT_DURATION_MS), 1>>,
            dominant_band |-> "none"], q.extra)
      EXCEPT !["dominant_band"] = tag]>>

\* compile_by_name, lines 55-56: band_dur and step
BandDur(total_ms, n, ov) ==
  IF n > 1 THEN <<total_ms * 10, 10 * n - ov * (n - 1)>> ELSE <<total_ms, 1>>
\* a step that ignores the overlap: segments laid end to end
StepWithoutOverlap(total_ms, n, ov) == BandDur(total_ms, n, ov)
Step(total_ms, n, ov) ==
  LET d == BandDur(total_ms, n, ov) IN <<d[1] * (10 - ov), d[2] * 10>>

\* compile_by_name, lines 51-71
CompileCombo(q, tag, ov) ==
  LET n == Len(q.combo)
      total_ms == Get(q.duration_ms, DEFAULT_DURATION_MS)
      band_dur == BandDur(total_ms, n, ov)
      step == Step(total_ms, n, ov) IN
  [i \in 1..n |->
     LET seg == q.combo[i] IN
     [band |-> DpToBand(Get(seg.dp, Get(q.dp, DEFAULT_DP))),
      hz |-> Get(seg.sp, Get(q.sp, DEFAULT_SP)) * HZ_PER_100_SP,
      range_mm |-> Get(seg.rng, Get(q.rng, DEFAULT_RNG)),
      offset_s |-> <<(i - 1) * step[1], step[2]>>,
      duration_s |-> IF seg.duration_ms = NoneV THEN band_dur
                     ELSE <<seg.duration_ms, 1>>,
      dominant_band |-> tag]]

\* TokenCompiler.compile_by_name(name, overlap): the events returned, or the
\* AttributeError of None.get when the entry's 'pattern' is null.
CompileByName(e, ov) ==
  IF e.kind \in {"unknown", "nobody"}
    THEN [raised |-> FALSE, events |-> <<FallbackSegment>>]
  ELSE IF e.kind = "null"
    THEN [raised |-> TRUE, events |-> <<>>]
  ELSE IF e.p.type # "combo" \/ e.p.combo = <<>>
    THEN [raised |-> FALSE, events |-> CompileSimple(e.p, e.tag)]
    ELSE [raised |-> FALSE, events |-> CompileCombo(e.p, e.tag, ov)]

\* One call of compile_by_name on an entry of the given set.
CallCompile(entries) ==
  /\ fn_args = NoArgs
  /\ \E e \in entries, ov \in OverlapTenths :
       /\ fn_args' = [fn |-> "compile_by_name", entry |-> e, overlap |-> ov]
       /\ fn_ret' = CompileByName(e, ov)
  /\ UNCHANGED <<sessionVars, playlistVars>>
CompileMiss == CallCompile(MissEntries)
CompileSimplePattern == CallCompile(SimpleEntries)
CompileComboPattern == CallCompile(ComboEntries)

\* ------------------------------------------------- run(): the act timeline
MaxLengthMin == 120        \* longest session length considered, in minutes
MIN_ACT_S == 60            \* max(60, duration)
LONG_TIER_MIN == 60        \* self.length_min >= 60
MID_TIER_MIN == 30         \* self.length_min >= 30
STORY_SECONDS_PER_MIN == 54    \* (length_min * 60) * 0.9

\* act_defs, percentages in hundredths
ActDefs(L) ==
  IF L >= LONG_TIER_MIN THEN
    << <<"Trap", 10>>, <<"Revelation", 10>>, <<"Test", 20>>, <<"Interrogation", 15>>,
       <<"Worship", 15>>, <<"Gaze", 10>>, <<"Claiming", 15>> >>
  ELSE IF L >= MID_TIER_MIN THEN
    << <<"Trap", 15>>, <<"Revelation", 15>>, <<"Test", 25>>, <<"Interrogation", 15>>,
       <<"Worship", 15>>, <<"Gaze", 10>> >>
  ELSE
    << <<"Trap", 15>>, <<"Revelation", 20>>, <<"Test", 40>>, <<"Gaze", 20>> >>

RECURSIVE SumPct(_)
SumPct(defs) == IF defs = <<>> THEN 0 ELSE defs[1][2] + SumPct(Tail(defs))

\* a phase's seconds as if the percentages summed to one: pct * total_story_s
PhaseSecondsNotNormalised(pct, total_pct, L) ==
  (pct * L * STORY_SECONDS_PER_MIN) \div 100

\* int((pct / total_pct) * total_story_s)
PhaseSeconds(pct, total_pct, L) ==
  (pct * L * STORY_SECONDS_PER_MIN) \div total_pct

\* act_timeline: (f"The {name}", max(60, duration)) for each act
ActTimeline(L) ==
  LET defs == ActDefs(L) IN
  [i \in 1..Len(defs) |->
     [name |-> "The " \o defs[i][1],
      duration |-> Max(MIN_ACT_S, PhaseSeconds(defs[i][2], SumPct(defs), L))]]

\* run(), lines 77-95, for one session length
CallTimeline ==
  /\ fn_args = NoArgs
  /\ \E L \in 1..MaxLengthMin :
       /\ fn_args' = [fn |-> "act_timeline", length_min |-> L]
       /\ fn_ret' = ActTimeline(L)
  /\ UNCHANGED <<sessionVars, playlistVars>>

\* ------------------------------------------- HandyClient, called directly
WIN_KEY_BASE == 10000      \* the pair (lo, hi) in tenths as the number lo*10000 + hi

\* round(x, 1) of a length given in hundredths of a millimetre, in tenths
\* (the lengths considered are not half-way between two tenths)
RoundTenth(x100) == (x100 + 5) \div 10

\* win = (round(min_mm, 1), round(max_mm, 1))
WindowOf(min100, max100) == RoundTenth(min100) * WIN_KEY_BASE + RoundTenth(max100)

\* arguments of the calls: millimetres in hundredths, speeds in hertz
WindowArgs == {<<1000, 2000>>, <<1004, 2000>>, <<1010, 2000>>, <<1000, 3002>>}
SpeedArgs == {0} \cup PosSpeeds
NoHistory ==
  [sent |-> FALSE, raised |-> FALSE, last_speed |-> NoneV, last_win |-> NoneV,
   tx_speed |-> NoneV, tx_win |-> NoneV]

\* One call of set_slide_window or set_speed_hz on the client of runner 1.
\* fn_args keeps the call, the client's fields before it and the values of
\* the previous calls; fn_ret what the call did, and the window and the
\* speed of the last requests that reached the device (tx_win, tx_speed).
CallDevice ==
  /\ \E fail \in PutFails :
       \/ \E a \in WindowArgs :
            LET w == WindowOf(a[1], a[2])
                res == SetSlideWindow(device[1], w, fail) IN
            /\ fn_args' = [fn |-> "set_slide_window", value |-> w, before |-> device[1],
                           prev |-> fn_ret.last_win]
            /\ fn_ret' = [fn_ret EXCEPT !.sent = res.sent, !.raised = res.raised,
                                        !.last_win = w,
                                        !.tx_win = IF res.sent /\ ~res.raised THEN w ELSE @]
            /\ device' = [device EXCEPT ![1] = res.dev]
       \/ \E hz \in SpeedArgs :
            LET res == SetSpeedHz(device[1], hz, fail) IN
            /\ fn_args' = [fn |-> "set_speed_hz", value |-> hz, before |-> device[1],
                           prev |-> fn_ret.last_speed]
            /\ fn_ret' = [fn_ret EXCEPT !.sent = res.sent, !.raised = res.raised,
                                        !.last_speed = hz,
                                        !.tx_speed = IF res.sent /\ ~res.raised THEN hz ELSE @]
            /\ device' = [device EXCEPT ![1] = res.dev]
  /\ UNCHANGED <<playlistVars, now, appVars, flagVars, clockVars, statusVars,
                 threadVars, issued>>

\* --------------------------------------------- StoryRunner._band_to_window
MIN_SPAN_MM == 8           \* span = max(8.0, hi - lo)
MIN_RANGE_MM == 4          \* half = max(4.0, ...) / 2
WINDOW_SCALE == 60         \* positions are kept in sixtieths of a millimetre
DEPTH_CAP_MIN == 15        \* the device's smallest depth_min (mm)
MaxDepthStep == 4          \* depth_min considered: DEPTH_CAP_MIN + 0, 10, .. 40

Bands == {"A", "B", "C"}
Min(a, b) == IF a <= b THEN a ELSE b
DepthMins == {DEPTH_CAP_MIN + 10 * k : k \in 0..MaxDepthStep}
DepthSpans == {0, 4, 8, 30, 55}     \* depth_max - depth_min
RangeArgs == {0, 4, 10, 20, 30}     \* rng_mm

\* _band_to_window(band, rng_mm) with depth_min = lo, depth_max = hi (mm);
\* the result (lo', hi') in sixtieths of a millimetre:
\* third * 0.5 = span/6, third * 1.5 = span/2, third * 2.5 = 5*span/6,
\* third * 0.9 = 3*span/10.
BandToWindow(band, rng_mm, lo, hi) ==
  LET span == Max(MIN_SPAN_MM, hi - lo)
      center == WINDOW_SCALE * lo
                  + 10 * span * (IF band = "A" THEN 1 ELSE IF band = "B" THEN 3 ELSE 5)
      half == Max(WINDOW_SCALE * MIN_RANGE_MM, Min(WINDOW_SCALE * rng_mm, 18 * span)) \div 2 IN
  <<Max(WINDOW_SCALE * lo, center - half), Min(WINDOW_SCALE * hi, center + half)>>

\* One call of _band_to_window on a runner with the given depth limits.
CallBandToWindow ==
  /\ fn_args = NoArgs
  /\ \E band \in Bands, r \in RangeArgs, lo \in DepthMins, sp \in DepthSpans :
       /\ fn_args' = [fn |-> "_band_to_window", band |-> band, rng_mm |-> r,
                      depth_min |-> lo, depth_max |-> lo + sp]
       /\ fn_ret' = BandToWindow(band, r, lo, lo + sp)
  /\ UNCHANGED <<sessionVars, playlistVars>>

\* ------------------------------------- the speed commanded by one tick
FULL_SPEED_HZ == 3         \* base_hz / 3.0
JITTER_PCT == 20           \* JITTER_FACTOR = 0.20
BURST_PULSE_JITTER_MS == 30
MIN_ON_OFF_MS == 50        \* max(50, burst_on_ms + jitter)
MIN_CYCLE_MS == 100        \* max(0.1, cycle_dur_base + jitter)
DEFAULT_BURST_MS == 200    \* seg.get('burst_on_ms', 200), seg.get('burst_off_ms', 200)
DEFAULT_BURST_SP == 70     \* seg.get('sp', 70) in _play_burst
DEFAULT_PULSE_SP == 40     \* seg.get('sp', 40) in _play_pulse
DEFAULT_PULSE_SP2 == 80    \* seg.get('sp2', 80)
DEFAULT_CYCLES == 4        \* seg.get('cycles', 4)
CAP_SPEED_MIN == 40        \* caps: speed_min_hz 0.4, in hundredths of a hertz
CAP_SPEED_MAX == 320       \* caps: speed_max_hz 3.2

\* Speed limits are in hundredths of a hertz, a segment's hz in hundredths,
\* a jittered hz in ten-thousandths; a commanded speed is in units of
\* 1/3000000 hertz.
HZ_FINE == 10000
NoKey == -1000             \* a key the segment does not have

\* the (speed_min, speed_max) pairs start_story can hand to the runner
SpeedLimits ==
  {l \in {CAP_SPEED_MIN, 70, 290, CAP_SPEED_MAX} \X {CAP_SPEED_MIN, 70, 290, CAP_SPEED_MAX} :
     l[1] <= l[2]}

\* a scaling that does not cap the normalised speed at 1
GetScaledHzUncapped(base, smin, smax) ==
  smin * FULL_SPEED_HZ * HZ_FINE + (smax - smin) * Max(0, base)

\* StoryRunner._get_scaled_hz(base_hz), base in ten-thousandths of a hertz
GetScaledHz(base, smin, smax) ==
  smin * FULL_SPEED_HZ * HZ_FINE
    + (smax - smin) * Min(FULL_SPEED_HZ * HZ_FINE, Max(0, base))

Has(v) == v # NoKey
\* seg.get('hz', seg.get('sp', d) / 100 * 3.0), in hundredths of a hertz
SegHz(seg, d) ==
  IF Has(seg.hz) THEN seg.hz
  ELSE (IF Has(seg.sp) THEN seg.sp ELSE d) * FULL_SPEED_HZ

\* The segments a tick can select: the type, the hz and sp keys (a combo
\* sub-segment may carry its own), and the timing keys of bursts and pulses.
TickSegs ==
  [type : {"sine", "linear", "burst", "pulse"}, hz : {NoKey, -30, 0, 150, 450},
   sp : {NoKey, 200}, sp2 : {NoKey}, burst_on_ms : {NoKey, 20},
   burst_off_ms : {NoKey}, cycles : {NoKey, 0, 2}, duration_ms : {2000}]

\* the random draws and the clock reading of one tick
TickDraws ==
  [apply_jitter : BOOLEAN, jitter_pct : {100 - JITTER_PCT, 100, 100 + JITTER_PCT},
   dropout : BOOLEAN,
   jitter_on : {-BURST_PULSE_JITTER_MS, 0, BURST_PULSE_JITTER_MS},
   jitter_off : {-BURST_PULSE_JITTER_MS, 0, BURST_PULSE_JITTER_MS},
   elapsed_ms : {0, 100, 260, 700}]
\* the draws a segment type does not make are given one value
DrawsOf(type) ==
  {d \in TickDraws :
     /\ type \in {"burst", "pulse"} =>
          d.apply_jitter /\ d.jitter_pct = 100 /\ ~d.dropout
     /\ type # "burst" => d.jitter_off = 0
     /\ type \notin {"burst", "pulse"} => d.jitter_on = 0 /\ d.elapsed_ms = 0
     /\ ~d.apply_jitter => d.jitter_pct = 100 /\ ~d.dropout}

\* _play_default: the base hz handed to _get_scaled_hz
PlayDefaultHz(seg, d) ==
  LET hz == SegHz(seg, DEFAULT_SP) IN
  IF ~d.apply_jitter THEN hz * 100
  ELSE IF seg.type \in {"sine", "triangle", "hold"} /\ d.dropout THEN 0
  ELSE hz * d.jitter_pct

\* _play_burst
PlayBurstHz(seg, d) ==
  LET on_ms == Max(MIN_ON_OFF_MS,
                   (IF Has(seg.burst_on_ms) THEN seg.burst_on_ms ELSE DEFAULT_BURST_MS)
                     + d.jitter_on)
      off_ms == Max(MIN_ON_OFF_MS,
                    (IF Has(seg.burst_off_ms) THEN seg.burst_off_ms ELSE DEFAULT_BURST_MS)
                      + d.jitter_off)
      phase == d.elapsed_ms % (on_ms + off_ms) IN
  IF phase < on_ms THEN SegHz(seg, DEFAULT_BURST_SP) * 100 ELSE 0

\* _play_pulse
PlayPulseHz(seg, d) ==
  LET cycles == IF Has(seg.cycles) THEN seg.cycles ELSE DEFAULT_CYCLES
      base == IF cycles > 0 THEN seg.duration_ms \div cycles ELSE seg.duration_ms
      cycle_dur == Max(MIN_CYCLE_MS, base + d.jitter_on)
      phase == d.elapsed_ms % cycle_dur
      sp1 == IF Has(seg.sp) THEN seg.sp ELSE DEFAULT_PULSE_SP
      sp2 == IF Has(seg.sp2) THEN seg.sp2 ELSE DEFAULT_PULSE_SP2 IN
  (IF Has(seg.hz) THEN seg.hz
   ELSE (IF 2 * phase < cycle_dur THEN sp1 ELSE sp2) * FULL_SPEED_HZ) * 100

\* _play_events, lines 282-286: the speed passed to set_speed_hz for the
\* selected segment
TickSpeed(seg, d, smin, smax) ==
  GetScaledHz(IF seg.type = "burst" THEN PlayBurstHz(seg, d)
              ELSE IF seg.type = "pulse" THEN PlayPulseHz(seg, d)
              ELSE PlayDefaultHz(seg, d), smin, smax)

\* One tick with an active segment: the speed it commands.
CallTickActive ==
  /\ fn_args = NoArgs
  /\ \E seg \in TickSegs, l \in SpeedLimits :
       \E d \in DrawsOf(seg.type) :
         /\ fn_args' = [fn |-> "tick", active |-> TRUE, seg |-> seg, draws |-> d,
                        speed_min |-> l[1], speed_max |-> l[2]]
         /\ fn_ret' = TickSpeed(seg, d, l[1], l[2])
  /\ UNCHANGED <<sessionVars, playlistVars>>

\* One tick with no active segment (line 288): set_speed_hz(0).
CallTickIdle ==
  /\ fn_args = NoArgs
  /\ \E l \in SpeedLimits :
       fn_args' = [fn |-> "tick", active |-> FALSE,
                   speed_min |-> l[1], speed_max |-> l[2]]
  /\ fn_ret' = 0
  /\ UNCHANGED <<sessionVars, playlistVars>>

\* ------------------------- a phase announcement with any narrative content
\* The narrative contents considered: the keys that have a non-empty pool of
\* lines in narrative_templates.
Templates == SUBSET {"INVITE", "STORY_TRAP", "STORY_TEST", "STORY_RELEASE"}
PhaseNames == {"The Trap", "The Test", "The Release"}
\* last_narrative_line_time when the phase starts: the initial 0.0, or the
\* time of a line announced 20 s or 1 s earlier
EarlierLineAges == {20000, 1000}
\* how long after the announcement a tick of the phase runs
TickAges == {0, TICK_MS, FORCED_NARRATIVE_INTERVAL_MS - TICK_MS}

\* StoryRunner._announce(key) at time t: last_line and last_narrative_line_time
AnnounceIn(templates, key, t, line_time) ==
  IF key \in templates
    THEN [last_line |-> key, last_narrative_line_time |-> t]
    ELSE [last_line |-> "Narrative key not found", last_narrative_line_time |-> line_time]

\* _play_events, lines 257-261: does the tick at time t re-announce a line?
ForcedLine(templates, a, t, line_time) ==
  /\ t - line_time > FORCED_NARRATIVE_INTERVAL_MS
  /\ StoryKey(a) \in templates

\* run(), lines 101-108 and 181-182: a phase starts and is announced.
PhaseAnnounce ==
  /\ fn_args = NoArgs
  /\ \E a \in PhaseNames, tm \in Templates,
        before \in {0} \cup {StartClockMs - g : g \in EarlierLineAges} :
       /\ fn_args' = [fn |-> "phase_start", act |-> a, key |-> ActStartKey(a),
                      templates |-> tm, now |-> StartClockMs, before |-> before]
       /\ fn_ret' = [line |-> AnnounceIn(tm, ActStartKey(a), StartClockMs, before),
                     tick |-> NoneV, forced |-> FALSE]
  /\ UNCHANGED <<sessionVars, playlistVars>>

\* A tick of the phase's playback, some time after the announcement.
PhaseTick ==
  /\ fn_args.fn = "phase_start"
  /\ fn_ret.tick = NoneV
  /\ \E dt \in TickAges :
       fn_ret' = [fn_ret EXCEPT
                    !.tick = dt,
                    !.forced = ForcedLine(fn_args.templates, fn_args.act,
                                          fn_args.now + dt,
                                          fn_ret.line.last_narrative_line_time)]
  /\ UNCHANGED <<fn_args, sessionVars, playlistVars>>

\* ------------------------------- run(): the playlist handed to the tick loop
MaxAppends == 3            \* patterns compiled for one playlist
PLAYLIST_OVERLAP_TENTHS == 4   \* PLAYLIST_OVERLAP = 0.4

RECURSIVE Gcd(_, _)
Gcd(a, b) == IF b = 0 THEN a ELSE Gcd(b, a % b)
\* the same fraction in lowest terms
RatNorm(a) ==
  IF a[1] = 0 THEN <<0, 1>>
  ELSE LET g == Gcd(a[1], a[2]) IN <<a[1] \div g, a[2] \div g>>

\* e.get('offset_s', 0) + e.get('duration_s', 0)
EndOf(e) == RatNorm(RatAdd(e.offset_s, e.duration_s))

\* the offset + duration of the last segment of the list
EndOfLastSegment(events) ==
  IF events = <<>> THEN <<0, 1>> ELSE EndOf(events[Len(events)])

\* max(e.get('offset_s', 0) + e.get('duration_s', 0) for e in events) if
\* events else 0   (run() line 168, _play_events line 249)
RECURSIVE MaxEnd(_)
MaxEnd(events) ==
  IF events = <<>> THEN <<0, 1>>
  ELSE LET m == MaxEnd(Tail(events)) IN
       IF RatLe(m, EndOf(events[1])) THEN EndOf(events[1]) ELSE m

\* _play_events, line 249: total_duration of the list handed to the tick loop
TotalDuration(events) == MaxEnd(events)

\* A combo pattern of n sub-segments that all carry the same keys.
PlainSeg == [dp |-> NoneV, sp |-> NoneV, rng |-> NoneV, duration_ms |-> NoneV]
ComboOf(n, seg, total_ms) ==
  Entry("pattern", "none",
        [NoPattern EXCEPT !.type = "combo", !.duration_ms = total_ms,
                          !.combo = [i \in 1..n |-> seg]])
\* The patterns a playlist is built from: simple ones (one too short to be
\* used), an unknown name, and combos of 2, 3 and 4 sub-segments, one whose
\* sub-segments give their own duration.
AppendEntries ==
  { Entry("pattern", "none", [NoPattern EXCEPT !.duration_ms = 3000]),
    Entry("pattern", "none", [NoPattern EXCEPT !.duration_ms = 50]),
    Entry("unknown", "none", NoPattern),
    ComboOf(2, PlainSeg, NoneV),
    ComboOf(3, PlainSeg, 6000),
    ComboOf(3, [PlainSeg EXCEPT !.duration_ms = 1000], 6000),
    ComboOf(4, PlainSeg, 6200) }

NoPlaylist ==
  [act_playlist |-> <<>>, block |-> <<>>, playlist_duration_s |-> <<0, 1>>,
   new_events |-> <<>>, played |-> FALSE, total_duration |-> <<0, 1>>]

\* run(), lines 154-175: compile the chosen pattern and append its segments,
\* offsets shifted by the running duration, which then advances by 60% of
\* the pattern's duration.  `block` remembers which pick a segment is from.
AppendPattern ==
  /\ fn_args.fn = "playlist"
  /\ ~fn_ret.played
  /\ Len(fn_args.picks) < MaxAppends
  /\ \E e \in AppendEntries :
       LET new_events == CompileByName(e, DEFAULT_OVERLAP_TENTHS).events
           pattern_duration == MaxEnd(new_events)
           at == fn_ret.playlist_duration_s IN
       /\ fn_args' = [fn_args EXCEPT !.picks = Append(@, e)]
       /\ fn_ret' =
            IF RatLe(pattern_duration, <<MIN_USABLE_MS, 1>>)
              THEN [fn_ret EXCEPT !.new_events = new_events]
              ELSE [fn_ret EXCEPT
                      !.new_events = new_events,
                      !.act_playlist =
                         @ \o [i \in 1..Len(new_events) |->
                                 [new_events[i] EXCEPT
                                    !.offset_s = RatNorm(RatAdd(new_events[i].offset_s, at))]],
                      !.block = @ \o [i \in 1..Len(new_events) |-> Len(fn_args.picks) + 1],
                      !.playlist_duration_s =
                         RatNorm(RatAdd(at, <<pattern_duration[1] * (10 - PLAYLIST_OVERLAP_TENTHS),
                                              pattern_duration[2] * 10>>))]
  /\ UNCHANGED <<sessionVars, playlistVars>>

\* run(), lines 177-178 and _play_events, lines 249-250: the playlist is
\* handed to the tick loop, which plays until start_t + total_duration.
PlayPlaylist ==
  /\ fn_args.fn = "playlist"
  /\ ~fn_ret.played
  /\ fn_ret.act_playlist # <<>>
  /\ fn_ret' = [fn_ret EXCEPT !.played = TRUE,
                              !.total_duration = TotalDuration(fn_ret.act_playlist)]
  /\ UNCHANGED <<fn_args, sessionVars, playlistVars>>

\* ------------------------------ run() with the playlist loop step by step
\* The universes the loop is followed with: no pattern, only a pattern too
\* short to be used, and a short one together with usable ones.
LoopUniverses ==
  { <<>>,
    <<Motif(TRUE, NoneV, <<>>, 50)>>,
    <<Motif(TRUE, NoneV, <<>>, 50), Motif(TRUE, 70, <<>>, 2000),
      Motif(TRUE, 20, <<>>, NoneV)>> }

\* run(), lines 99-120: the head of one iteration of the act loop, as
\* ActBegin, the playlist of a phase other than the Gaze being built by
\* the loop of lines 122-175, one iteration at a time.
ActBeginLoop(r) ==
  /\ tpc[r] = "act"
  /\ IF tl[r].idx > Len(ActNames) \/ ShouldStop(r)
       THEN /\ tpc' = [tpc EXCEPT ![r] = "final"]
            /\ UNCHANGED <<tl, act, last_line, narr_t, playlist_duration_s>>
       ELSE LET a == ActNames[tl[r].idx] IN
            /\ act' = [act EXCEPT ![r] = a]
            /\ Announce(r, ActStartKey(a))
            /\ IF a = "The Gaze"
                 THEN /\ tpc' = [tpc EXCEPT ![r] = "pe_entry"]
                      /\ CallPlay(r, "gaze_check", tl[r].idx + 1)
                      /\ UNCHANGED playlist_duration_s
                 ELSE /\ tpc' = [tpc EXCEPT ![r] = "pl_loop"]
                      /\ playlist_duration_s' = [playlist_duration_s EXCEPT ![r] = 0]
                      /\ UNCHANGED tl
  /\ UNCHANGED <<callVars, motifs, runs, rng, last_pattern_info, prev_pattern_info,
                 picks, drawn, now, appVars, flagVars, clockVars, device, issued>>

\* run(), lines 122-178: the loop condition and one iteration.  Any name of
\* the universe may be chosen; rng.choice of an empty list raises.  A pattern
\* of at most 0.1 s is discarded (continue); a longer one advances the
\* running duration by 60% of its duration.  After the loop a non-empty
\* playlist is handed to the tick loop unless the session should stop.
PlaylistIter(r) ==
  /\ tpc[r] = "pl_loop"
  /\ IF playlist_duration_s[r] < PlaylistTargetMs /\ ~ShouldStop(r)
       THEN IF motifs = <<>>
              THEN /\ tpc' = [tpc EXCEPT ![r] = "dead"]
                   /\ tl' = [tl EXCEPT ![r] = NoLocals]
                   /\ UNCHANGED playlist_duration_s
              ELSE /\ \E p \in Names :
                        LET d == PatternDurationMs(motifs[p]) IN
                        playlist_duration_s' =
                          [playlist_duration_s EXCEPT ![r] =
                             IF d <= MIN_USABLE_MS THEN @ ELSE @ + (d * 6) \div 10]
                   /\ UNCHANGED <<tpc, tl>>
       ELSE /\ IF playlist_duration_s[r] > 0 /\ ~ShouldStop(r)
                 THEN /\ tpc' = [tpc EXCEPT ![r] = "pe_entry"]
                      /\ CallPlay(r, "act", tl[r].idx + 1)
                 ELSE /\ tpc' = [tpc EXCEPT ![r] = "act"]
                      /\ tl' = [tl EXCEPT ![r].idx = @ + 1]
            /\ UNCHANGED playlist_duration_s
  /\ UNCHANGED <<callVars, motifs, runs, rng, last_pattern_info, prev_pattern_info,
                 picks, drawn, now, appVars, flagVars, clockVars, statusVars,
                 device, issued>>

ThreadLoop(r) ==
  \/ ActBeginLoop(r) \/ PlaylistIter(r) \/ PlayEntry(r) \/ PlayStart(r)
  \/ PlayLoop(r) \/ PlayTick(r) \/ PlayWake(r) \/ GazeCheck(r) \/ GazeWake(r)
  \/ Final(r) \/ ReleaseWake(r)

\* The playlist loop is going round without a sleep: its iterations discard
\* a pattern that is too short.
Spinning(r) ==
  /\ tpc[r] = "pl_loop"
  /\ playlist_duration_s[r] < PlaylistTargetMs /\ ~ShouldStop(r)
  /\ \E p \in Names : PatternDurationMs(motifs[p]) <= MIN_USABLE_MS

\* Time passes as in Advance, and also while a playlist loop goes round.
AdvanceLoop ==
  /\ \A r \in 1..nrun :
       tpc[r] \in Exited \/ (tpc[r] \in Sleeping /\ tl[r].wake > now) \/ Spinning(r)
  /\ \A c \in Callers :
       \/ cpc[c] \in {"idle", "pause_io", "speed", "motion"}
       \/ cpc[c] = "wait" /\ lock # NoCaller
       \/ cpc[c] = "join" /\ IsAlive(cl[c].target) /\ cl[c].join_until > now
  /\ \E t \in Timers : t > now
  /\ now' = SetMin({t \in Timers : t > now})
  /\ UNCHANGED <<callVars, playlistVars, appVars, flagVars, clockVars, statusVars,
                 threadVars, device, issued>>

\* StoryRunner.pause(), resume() and stop() called on the runner, each as
\* one step, at any time and any number of times.
RunnerPause(r) ==
  /\ r \in 1..nrun /\ ~pause_ev[r]
  /\ pause_ev' = [pause_ev EXCEPT ![r] = TRUE]
  /\ pause_held' = [pause_held EXCEPT ![r] = TRUE]
  /\ UNCHANGED <<callVars, playlistVars, now, appVars, stop_event, stop_at,
                 stop_returned, clockVars, statusVars, threadVars, device, issued>>

RunnerResume(r) ==
  /\ r \in 1..nrun /\ pause_ev[r]
  /\ pause_ev' = [pause_ev EXCEPT ![r] = FALSE]
  /\ pause_held' = [pause_held EXCEPT ![r] = FALSE]
  /\ UNCHANGED <<callVars, playlistVars, now, appVars, stop_event, stop_at,
                 stop_returned, clockVars, statusVars, threadVars, device, issued>>

RunnerStop(r) ==
  /\ r \in 1..nrun /\ ~stop_event[r]
  /\ SetStop(r)
  /\ \E fail \in PutFails :
       device' = [device EXCEPT ![r] = SetSpeedHz(device[r], 0, fail).dev]
  /\ stop_returned' = [stop_returned EXCEPT ![r] = TRUE]
  /\ UNCHANGED <<callVars, playlistVars, now, appVars, pause_ev, pause_held,
                 clockVars, statusVars, threadVars, issued>>

\* ---------------------------------------------------------- specification
\* The state after app.py is loaded, with the requests a behaviour may make.
RunIds == {1, 2}
PlaylistIdle ==
  /\ motifs = <<>>
  /\ runs = {}
  /\ rng = [k \in RunIds |-> 0]
  /\ last_pattern_info = [k \in RunIds |-> NoInfo]
  /\ prev_pattern_info = [k \in RunIds |-> NoInfo]
  /\ picks = [k \in RunIds |-> <<>>]
  /\ playlist_duration_s = [k \in RunIds |-> 0]
  /\ drawn = [k \in RunIds |-> {}]

SessionInit(b) ==
  /\ budget = b
  /\ now = StartClockMs
  /\ runner = NoRunner
  /\ nrun = 0
  /\ lock = NoCaller
  /\ stop_event = [r \in Runners |-> FALSE]
  /\ pause_ev = [r \in Runners |-> FALSE]
  /\ started_at = [r \in Runners |-> 0]
  /\ ends_at = [r \in Runners |-> 0]
  /\ last_line = [r \in Runners |-> ""]
  /\ narr_t = [r \in Runners |-> 0]
  /\ act = [r \in Runners |-> "The Trap"]
  /\ tpc = [r \in Runners |-> "unborn"]
  /\ tl = [r \in Runners |-> NoLocals]
  /\ device = [r \in Runners |-> NewDevice]
  /\ cpc = [c \in Callers |-> "idle"]
  /\ cl = [c \in Callers |-> NoCall]
  /\ issued = [cmd |-> "none", paused |-> FALSE, stopped |-> FALSE]
  /\ stop_at = [r \in Runners |-> 0]
  /\ stop_returned = [r \in Runners |-> FALSE]
  /\ pause_held = [r \in Runners |-> FALSE]

InitWith(b) ==
  /\ PlaylistIdle
  /\ CallIdle
  /\ SessionInit(b)

Next ==
  \/ \E r \in Runners : Thread(r)
  \/ \E c \in Callers : Caller(c)
  \/ Advance

\* One session, requests made one after the other.
Init == InitWith([ops |-> MaxOps, starts |-> 1, callers |-> 1, remember |-> FALSE])
Spec == Init /\ [][Next]_vars

\* A session started while another exists, requests one after the other.
InitSwap ==
  InitWith([ops |-> SwapOps, starts |-> MaxRunners, callers |-> 1, remember |-> FALSE])
SpecSwap == InitSwap /\ [][Next]_vars

\* One session, requests made concurrently.
InitConc ==
  InitWith([ops |-> ConcOps, starts |-> 1, callers |-> MaxCallers, remember |-> FALSE])
SpecConc == InitConc /\ [][Next]_vars

\* The playlist loop of one phase, for every universe and seed.
NoRequests == [ops |-> 0, starts |-> 0, callers |-> 0, remember |-> FALSE]
InitPlaylistWith(ks) ==
  /\ SessionInit(NoRequests)
  /\ CallIdle
  /\ motifs \in Universes
  /\ runs = ks
  /\ \E sd \in Seeds : rng = [k \in RunIds |-> sd]
  /\ last_pattern_info = [k \in RunIds |-> NoInfo]
  /\ prev_pattern_info = [k \in RunIds |-> NoInfo]
  /\ picks = [k \in RunIds |-> <<>>]
  /\ playlist_duration_s = [k \in RunIds |-> 0]
  /\ drawn = [k \in RunIds |-> {}]
NextPlaylist == \E k \in RunIds : PickPattern(k) \/ GlobalDraw(k)
InitPlaylist == InitPlaylistWith({1})
SpecPlaylist == InitPlaylist /\ [][NextPlaylist]_vars

\* Two runs of a session with the same seed and the same universe.
InitReplay == InitPlaylistWith(RunIds)
SpecReplay == InitReplay /\ [][NextPlaylist]_vars

\* One session, requests one after the other, the client remembering the
\* last snapshot it was given (to compare the next one with).
InitClock == InitWith([ops |-> ClockOps, starts |-> 1, callers |-> 1, remember |-> TRUE])
SpecClock == InitClock /\ [][Next]_vars

\* Calls of compile_by_name, one per behaviour, on every entry and overlap.
InitCall == SessionInit(NoRequests) /\ PlaylistIdle /\ CallIdle
NextCompile == CompileMiss \/ CompileSimplePattern \/ CompileComboPattern
SpecCompile == InitCall /\ [][NextCompile]_vars

\* The act timeline of every session length.
SpecTimeline == InitCall /\ [][CallTimeline]_vars

\* Calls of set_slide_window and set_speed_hz on a fresh client, in any order.
InitDevice ==
  /\ SessionInit(NoRequests) /\ PlaylistIdle
  /\ fn_args = NoArgs /\ fn_ret = NoHistory
SpecDevice == InitDevice /\ [][CallDevice]_vars

\* _band_to_window for every band, range and pair of depth limits.
SpecWindow == InitCall /\ [][CallBandToWindow]_vars

\* The speed one tick commands, for every segment, draw and speed limits.
NextTick == CallTickActive \/ CallTickIdle
SpecTick == InitCall /\ [][NextTick]_vars

\* A phase announcement and a tick after it, for every narrative content.
NextPhase == PhaseAnnounce \/ PhaseTick
SpecPhase == InitCall /\ [][NextPhase]_vars

\* The playlist of one phase, built from up to MaxAppends compiled patterns.
InitAppend ==
  /\ SessionInit(NoRequests) /\ PlaylistIdle
  /\ fn_args = [fn |-> "playlist", picks |-> <<>>]
  /\ fn_ret = NoPlaylist
NextAppend == AppendPattern \/ PlayPlaylist
SpecAppend == InitAppend /\ [][NextAppend]_vars

\* One started session whose playlist loop is followed step by step, for
\* every universe, with pause(), resume() and stop() called at any time; a
\* control loop that can take a step eventually does, and time passes.
InitLoop ==
  /\ budget = NoRequests
  /\ now = StartClockMs
  /\ runner = 1 /\ nrun = 1
  /\ lock = NoCaller
  /\ stop_event = [r \in Runners |-> FALSE]
  /\ pause_ev = [r \in Runners |-> FALSE]
  /\ started_at = [r \in Runners |-> IF r = 1 THEN StartClockMs ELSE 0]
  /\ \E len \in SessionLengths :
       ends_at = [r \in Runners |-> IF r = 1 THEN StartClockMs + len ELSE 0]
  /\ last_line = [r \in Runners |-> ""]
  /\ narr_t = [r \in Runners |-> 0]
  /\ act = [r \in Runners |-> "The Trap"]
  /\ tpc = [r \in Runners |-> IF r = 1 THEN "act" ELSE "unborn"]
  /\ \E d \in PlayDurations :
       tl = [r \in Runners |->
               IF r = 1 THEN [NoLocals EXCEPT !.idx = 1, !.dur = d] ELSE NoLocals]
  /\ device = [r \in Runners |-> NewDevice]
  /\ cpc = [c \in Callers |-> "idle"]
  /\ cl = [c \in Callers |-> NoCall]
  /\ issued = [cmd |-> "none", paused |-> FALSE, stopped |-> FALSE]
  /\ stop_at = [r \in Runners |-> 0]
  /\ stop_returned = [r \in Runners |-> FALSE]
  /\ pause_held = [r \in Runners |-> FALSE]
  /\ CallIdle
  /\ motifs \in LoopUniverses
  /\ runs = {}
  /\ rng = [k \in RunIds |-> 0]
  /\ last_pattern_info = [k \in RunIds |-> NoInfo]
  /\ prev_pattern_info = [k \in RunIds |-> NoInfo]
  /\ picks = [k \in RunIds |-> <<>>]
  /\ playlist_duration_s = [k \in RunIds |-> 0]
  /\ drawn = [k \in RunIds |-> {}]
NextLoop ==
  \/ \E r \in Runners : ThreadLoop(r)
  \/ \E r \in Runners : RunnerPause(r) \/ RunnerResume(r) \/ RunnerStop(r)
  \/ AdvanceLoop
SpecLoop ==
  /\ InitLoop /\ [][NextLoop]_vars
  /\ \A r \in Runners : WF_vars(ThreadLoop(r))
  /\ WF_vars(AdvanceLoop)

\* ----------------------------------------------------------------- claims
\* the request threads that hold a snapshot they have just been given
Replies ==
  {c \in Callers : /\ cpc[c] = "reply" /\ cl[c].op \in {"status", "start"}
                    /\ cl[c].snap.r # NoRunner}
MotionCmds == {"start_motion", "set_slide_window", "set_speed_hz"}

\* C1: every state_snapshot() taken after a stop() has returned reports
\* lifecycle 'stopped', whatever pause() and resume() calls came after it.
C1_StopIsTerminal ==
  \A c \in Replies : cl[c].snap.after_stop => cl[c].snap.state = "stopped"

\* C2: no new runner's thread is started while a prior runner's thread is
\* alive: at most one control loop is alive at any time.
C2_OneLoopAlive == Cardinality({r \in Runners : IsAlive(r)}) <= 1

\* C3: between the return of pause() and the next resume(), the control
\* loop makes no start_motion, set_slide_window or set_speed_hz call.
C3_NoCommandWhilePaused == issued.cmd \in MotionCmds => ~issued.paused

\* C4: ends_at and started_at of a constructed runner never change, the
\* clock never goes back, and every snapshot returned carries those values
\* and t_remaining_ms = max(0, ends_at - now): it cannot increase.
C4_SnapshotOk(c) ==
  LET sn == cl'[c].snap
      old == cl[c].seen IN
  (cpc'[c] = "reply" /\ cpc[c] # "reply" /\ cl[c].op \in {"status", "start"}
     /\ sn.r # NoRunner) =>
     /\ sn.ends_at = ends_at[sn.r]
     /\ sn.started_at = started_at[sn.r]
     /\ sn.t_remaining_ms >= 0
     /\ sn.t_remaining_ms >= sn.ends_at - sn.at
     /\ sn.t_remaining_ms \in {0, sn.ends_at - sn.at}
     /\ old.r = sn.r =>
          sn.at >= old.at /\ sn.t_remaining_ms <= old.t_remaining_ms
C4_DeadlineFixed ==
  [][ /\ now' >= now
      /\ \A r \in 1..nrun :
           ends_at'[r] = ends_at[r] /\ started_at'[r] = started_at[r]
      /\ \A c \in Callers : C4_SnapshotOk(c) ]_vars
\* a snapshot of a paused session, taken later than the client's previous
\* snapshot of the same runner and before the deadline
C4_Witness ==
  \E c \in Replies :
    /\ cl[c].snap.state = "paused"
    /\ cl[c].seen.r = cl[c].snap.r
    /\ cl[c].snap.at > cl[c].seen.at
    /\ cl[c].snap.t_remaining_ms < cl[c].seen.t_remaining_ms
    /\ cl[c].snap.at > cl[c].snap.started_at
    /\ cl[c].snap.t_remaining_ms > 0
    /\ cl[c].snap.t_remaining_ms < cl[c].snap.ends_at - cl[c].snap.started_at

\* C5: a snapshot taken once the deadline has passed and the control loop
\* has exited reports lifecycle 'stopped', stop() called or not.
C5_DeadlineStops ==
  \A c \in Replies :
    (/\ cl[c].snap.thread = "done" /\ ~cl[c].snap.stop_called
     /\ cl[c].snap.at >= cl[c].snap.ends_at)
      => cl[c].snap.state = "stopped"

\* C6: a control loop that is inside a sleep has not had its stop flag set
\* for longer than one tick.
C6_StopSeenWithinTick ==
  \A r \in 1..nrun :
    (stop_event[r] /\ tpc[r] \in Sleeping /\ now < tl[r].wake)
      => now - stop_at[r] <= TICK_MS

\* C7: a status request never finds runner_lock held by a pause or a stop
\* that is inside an actuator command or a join: it can always complete.
C7_StatusNeverWaits ==
  \A c, d \in Callers :
    (/\ cpc[c] = "wait" /\ cl[c].op = "status"
     /\ cl[d].op \in {"pause", "stop"}
     /\ cpc[d] \in {"pause_io", "speed", "motion", "join"})
      => ENABLED Status(c)

\* C10: when stop() returns it has set the flag, attempted speed-to-zero
\* and attempted stop-motion, in that order.
C10_StopSequenceComplete ==
  \A c \in Callers :
    cpc[c] = "join" => cl[c].trace = <<"flag", "speed", "motion">>

\* Pattern q contrasts with the previous pick: its band differs from the
\* previous pick's band, or its depth-percent differs by more than 30.
Contrasting(q, prev) ==
  /\ motifs[q].body
  /\ \/ DpToBand(MotifDp(motifs[q])) # prev.band
     \/ Abs(MotifDp(motifs[q]) - prev.dp) > CONTRAST_DP

\* C8: for every pick after the first in a phase, if the universe holds a
\* pattern contrasting with the previous pick (other band, or depth delta
\* above 30), the chosen pattern is one of those.
C8_ContrastPreferred ==
  \A k \in runs :
    Len(picks[k]) >= 2 =>
      LET prev == prev_pattern_info[k]
          p == picks[k][Len(picks[k])] IN
      (\E q \in Names : Contrasting(q, prev)) => Contrasting(p, prev)

\* C9: two runs with the same seed and the same universe make the same
\* sequence of pattern selections, and every random choice of the control
\* loop is drawn from the generator seeded with the session seed.
C9_ReplayFromOneGenerator ==
  /\ \A i \in 1..MaxPicks :
       (i <= Len(picks[1]) /\ i <= Len(picks[2])) => picks[1][i] = picks[2][i]
  /\ \A k \in runs : drawn[k] \subseteq {"seeded"}

\* C11: pause() returns normally, with the pause flag set, also when the
\* actuator's stop-motion command failed: no error reaches the caller.
C11_PauseFailSoft ==
  \A c \in Callers :
    (cpc[c] = "reply" /\ cl[c].op = "pause" /\ cl[c].target # NoRunner)
      => pause_ev[cl[c].target] /\ ~cl[c].raised

\* C12: a start_motion, set_slide_window or set_speed_hz call that raises
\* during playback does not end the control loop.
C12_TickErrorNotFatal ==
  \A r \in 1..nrun : ~(tpc[r] = "dead" /\ issued.cmd \in MotionCmds)

\* C13: a step of a request thread (start, pause, resume, stop, status)
\* writes neither last_line nor act of any runner.
C13_LoopIsOnlyWriter ==
  [][(\E c \in Callers : Caller(c)) => (last_line' = last_line /\ act' = act)]_vars

\* the calls of compile_by_name that have returned, by kind of entry
Compiled(kinds) ==
  /\ fn_args.fn = "compile_by_name"
  /\ fn_args.entry.kind \in kinds
IsComboCall ==
  /\ Compiled({"pattern"})
  /\ fn_args.entry.p.type = "combo" /\ fn_args.entry.p.combo # <<>>
IsSimpleCall == Compiled({"pattern"}) /\ ~IsComboCall

C15_SimpleSegment ==
  IsSimpleCall =>
    LET q == fn_args.entry.p
        evs == fn_ret.events IN
    /\ ~fn_ret.raised
    /\ Len(evs) = 1
    /\ RatEq(evs[1].offset_s, <<0, 1>>)
    /\ RatEq(evs[1].duration_s, <<IF q.duration_ms = NoneV THEN 5000 ELSE q.duration_ms, 1>>)
    /\ evs[1].hz = (IF q.sp = NoneV THEN 50 ELSE q.sp) * 3
    /\ evs[1].range_mm = (IF q.rng = NoneV THEN 20 ELSE q.rng)
    /\ evs[1].band = LET dp == IF q.dp = NoneV THEN 50 ELSE q.dp IN
                     IF dp <= 32 THEN "A" ELSE IF dp <= 65 THEN "B" ELSE "C"

\* C16: for a name the lookup does not know, or whose entry has no pattern
\* body, compile raises nothing and returns the one fallback segment
\* {band B, hz 0, rangeMm 0, offsetS 0, durationS 1}.
C16_LookupMissFallback ==
  Compiled({"unknown", "nobody", "null"}) =>
    /\ ~fn_ret.raised
    /\ Len(fn_ret.events) = 1
    /\ fn_ret.events[1].band = "B"
    /\ fn_ret.events[1].hz = 0
    /\ fn_ret.events[1].range_mm = 0
    /\ RatEq(fn_ret.events[1].offset_s, <<0, 1>>)
    /\ RatEq(fn_ret.events[1].duration_s, <<1000, 1>>)

RECURSIVE SumDurations(_)
SumDurations(tl_) == IF tl_ = <<>> THEN 0 ELSE tl_[1].duration + SumDurations(Tail(tl_))
TimelineCall == fn_args.fn = "act_timeline"
\* tiers, floor and sum of the timeline returned for length L
TimelineTiers ==
  LET L == fn_args.length_min IN
  Len(fn_ret) = IF L >= 60 THEN 7 ELSE IF L >= 30 THEN 6 ELSE 4
TimelineFloor == \A i \in 1..Len(fn_ret) : fn_ret[i].duration >= 60
TimelineSum ==
  LET diff == SumDurations(fn_ret) - 54 * fn_args.length_min IN
  diff < Len(fn_ret) /\ -diff < Len(fn_ret)

\* C17: for a session of L minutes the timeline has 7, 6 or 4 phases (L>=60,
\* 30<=L<60, L<30), every phase is at least 60 s, and the phases sum to
\* 0.9*60*L within less than one second per phase.
C17_Timeline == TimelineCall => TimelineTiers /\ TimelineFloor /\ TimelineSum

\* C17 as it holds: the same, the sum for sessions of at least 7 minutes
\* (below that the 60 s floor lifts the sum above 0.9*60*L).
C17_TimelineFromSevenMinutes ==
  TimelineCall =>
    /\ TimelineTiers
    /\ TimelineFloor
    /\ fn_args.length_min >= 7 => TimelineSum
\* L = 10: four phases of 85, 113, 227, 113 s, 538 s in all
C17_Witness ==
  /\ TimelineCall
  /\ fn_args.length_min = 10
  /\ Len(fn_ret) = 4
  /\ fn_ret[1].duration = 85 /\ fn_ret[2].duration = 113
  /\ fn_ret[3].duration = 227 /\ fn_ret[4].duration = 113

DeviceCalls == {"set_slide_window", "set_speed_hz"}
\* C18: a set_speed_hz or set_slide_window call with the value of the
\* previous such call (the window after rounding to 0.1 mm) sends no request
\* and changes no client state; a call with another value sends exactly one.
C18_Deduplication ==
  fn_args.fn \in DeviceCalls =>
    IF fn_args.value = fn_args.prev
      THEN ~fn_ret.sent /\ device[1] = fn_args.before
      ELSE fn_ret.sent

\* C19: the close sequence is for a session that was not stopped: once
\* stop() has returned, the control loop announces no Release and no Outro
\* line; the Outro comes only in the Release phase, after the stop-motion
\* command that follows the hold.
C19_CloseOnlyUnstopped ==
  [][\A r \in Runners :
       /\ (stop_returned[r] /\ last_line'[r] # last_line[r])
            => last_line'[r] \notin {"STORY_RELEASE", "OUTRO"}
       /\ (last_line'[r] = "OUTRO" /\ last_line[r] # "OUTRO")
            => (act[r] = "The Release" /\ tpc[r] = "rel_hold"
                /\ issued'.cmd = "stop_motion")]_vars

\* C20: for every band, range and depth_min <= depth_max, the window
\* (lo, hi) of _band_to_window satisfies depth_min <= lo <= hi <= depth_max.
C20_WindowInsideLimits ==
  fn_args.fn = "_band_to_window" =>
    /\ WINDOW_SCALE * fn_args.depth_min <= fn_ret[1]
    /\ fn_ret[1] <= fn_ret[2]
    /\ fn_ret[2] <= WINDOW_SCALE * fn_args.depth_max

C22_AnnouncementResetsCooldown ==
  fn_args.fn = "phase_start" =>
    /\ fn_ret.line.last_narrative_line_time = fn_args.now
    /\ (fn_ret.tick # NoneV /\ fn_ret.tick <= 18000) => ~fn_ret.forced

\* the segments of a list are in non-decreasing order of offset
Ordered(events) ==
  \A i, j \in 1..Len(events) :
    i < j => events[i].offset_s[1] * events[j].offset_s[2]
               <= events[j].offset_s[1] * events[i].offset_s[2]
\* the same for segments that come from the same compiled pattern
OrderedInBlocks(events, block) ==
  \A i, j \in 1..Len(events) :
    (i < j /\ block[i] = block[j]) =>
       events[i].offset_s[1] * events[j].offset_s[2]
         <= events[j].offset_s[1] * events[i].offset_s[2]
\* the first segments of the appended patterns are in non-decreasing order
BlockStartsOrdered(events, block) ==
  Ordered(SelectSeq([i \in 1..Len(events) |->
                       [offset_s |-> events[i].offset_s,
                        first |-> i = 1 \/ block[i - 1] # block[i]]],
                    LAMBDA x : x.first))
\* the playing time is the largest offset + duration of the list
PlaysForSpan(events, total) ==
  /\ \A i \in 1..Len(events) :
       LET e == events[i] IN
       (e.offset_s[1] * e.duration_s[2] + e.duration_s[1] * e.offset_s[2]) * total[2]
         <= total[1] * e.offset_s[2] * e.duration_s[2]
  /\ \E i \in 1..Len(events) :
       LET e == events[i] IN
       (e.offset_s[1] * e.duration_s[2] + e.duration_s[1] * e.offset_s[2]) * total[2]
         = total[1] * e.offset_s[2] * e.duration_s[2]
PlaylistCall == fn_args.fn = "playlist"

C24_NoMotionAfterStop ==
  /\ issued.cmd \in {"start_motion", "set_slide_window"} => ~issued.stopped
  /\ \A r \in 1..nrun : stop_returned[r] => device[r].hz = 0

\* C25: for every universe and every sequence of pause and resume calls, a
\* started run() whose stop flag is set or whose deadline has passed
\* eventually exits.
C25_LoopTerminates ==
  \A r \in Runners :
    (tpc[r] # "unborn" /\ (stop_event[r] \/ now >= ends_at[r]))
      ~> (tpc[r] \in {"done", "finished", "dead"})
\* a paused and never resumed session, in a universe whose only pattern is
\* too short to use, has left run() at the deadline
C25_Witness ==
  /\ Len(motifs) = 1 /\ motifs[1].duration_ms = 50
  /\ tpc[1] = "done" /\ act[1] = "The Trap"
  /\ pause_ev[1] /\ ~stop_event[1]
  /\ now >= ends_at[1]

\* C26: in a universe of at least two patterns, no pick of a phase's
\* playlist construction has the name of the pick before it, combos whose
\* first sub-segment overrides the depth-percent included.
C26_NoImmediateRepeat ==
  \A k \in runs :
    (Len(motifs) >= 2 /\ Len(picks[k]) >= 2) =>
      picks[k][Len(picks[k])] # picks[k][Len(picks[k]) - 1]

\* the call was skipped as a repetition of the remembered value
SkippedAsDuplicate ==
  /\ fn_args.fn \in DeviceCalls
  /\ fn_args.value = (IF fn_args.fn = "set_speed_hz" THEN fn_args.before.hz
                      ELSE fn_args.before.win)

\* C27: after any sequence of set_slide_window and set_speed_hz calls, a
\* call is skipped as a duplicate only if its value has reached the device,
\* and once a window is set and the last call has not failed, the speed
\* requested last has reached the device.
C27_RememberedIsTransmitted ==
  /\ SkippedAsDuplicate =>
       fn_args.value = (IF fn_args.fn = "set_speed_hz" THEN fn_ret.tx_speed
                        ELSE fn_ret.tx_win)
  /\ (device[1].win # NoneV /\ fn_ret.last_speed # NoneV /\ ~fn_ret.raised)
       => fn_ret.tx_speed = fn_ret.last_speed

====
